---- MODULE Spec2Model ----
(***************************************************************************)
(* Model of the frame detector/synchronizer qdsync_cccf                    *)
(* (src/src/framing/src/qdsync_cccf.c).                                    *)
(*                                                                         *)
(* The object is the record q, one field per member of struct              *)
(* qdsync_cccf_s.  Every public operation is one action that runs the      *)
(* whole handler, the callbacks it makes and the nested execute of the     *)
(* detection handoff included.  The handlers are operators on a context    *)
(* record c that carries the object (c.q) together with what the           *)
(* environment decides or observes during the call: the return codes of    *)
(* the user callback (c.plan), the detector's timing estimate (c.tau),     *)
(* the log of events of the call (c.ev) and the samples appended,          *)
(* delivered and lost since the last reset (c.h), and whether realloc      *)
(* fails during the call (c.nomem).                                        *)
(*                                                                         *)
(* Specifications: Spec (one object, every reallocation succeeds),         *)
(* SpecTau (Spec with a wider grid of timing estimates), SpecTiming (two   *)
(* and three samples per symbol), SpecAlloc (Spec with failing             *)
(* reallocations), SpecCopy (an object and its copy) and SpecWrap (a long  *)
(* frame with a narrow symbol counter).                                    *)
(*                                                                         *)
(* Samples are records [id, det]: id is the position of the sample in the  *)
(* input stream (0 for the zero sample), det says whether the detector     *)
(* signals detection when it is handed this sample with a full buffer.     *)
(* The output of the matched filter for input sample x is the symbol       *)
(* token x.id.                                                             *)
(***************************************************************************)
EXTENDS Integers, Sequences, FiniteSets, TLC

\* ------------------------------------------------------------------ bounds
\* total number of input samples over a run
MaxSamples == 4
\* the same in SpecTau, where the timing estimate ranges over the wider grid
MaxSamplesTau == 3
\* the same in SpecCopy, the samples being shared out between two objects
MaxSamplesCopy == 2
\* the same in SpecWrap: enough for the narrow symbol counter to come round
MaxSamplesWrap == 7
\* longest block handed to one execute call
MaxBlock == 2
\* largest length given to set_buf_len
MaxBufLen == 3
\* number of callback invocations of one call whose return code is chosen
MaxCbPlan == 1
\* length of the detector's buffered window (qdetector_cccf_get_buf_len)
DetBufLen == 2

\* ------------------------------------------------------- program constants
\* q->npfb = 256
NPFB == 256
\* q->buf_out_len = 64
BUF_OUT_LEN_INIT == 64

\* samples per symbol and filter semi-length given to create
Ks == {2}
Ms == {0, 1}
\* the detector's timing estimates tau_hat, as TauNum / TauDen: the grid has
\* two points per filterbank branch
TauDen == 2 * NPFB
TauNums == {-3, 3}
\* a wider grid of timing estimates in (-1, 1): both ends, the branch
\* boundaries at one half, and products tau_hat * npfb with fractional part
\* zero and one half on both sides of zero
TauGrid == {-511, -256, -1, 2, 257, 511}
\* samples per symbol for the decimation timing
KsTiming == {2, 3}

\* the width of unsigned int, the type of symbol_counter
UINT_BITS == 32
\* a narrow width for the same counter, two bits above the gate 2 * m of m = 1
SymbolCounterBits == 2

QDSYNC_STATE_DETECT == 0
QDSYNC_STATE_SYNC == 1
NULL == "NULL"
USER_CALLBACK == "user_callback"
Contexts == {"ctx"}

\* q is the synchronizer, hist its history, last the record of the last call,
\* next_id the number of the next input sample; twin is the object made by
\* qdsync_cccf_copy, once there is one
VARIABLES q, hist, last, next_id, twin

vars == <<q, hist, last, next_id, twin>>

\* ----------------------------------------------------------------- helpers
Min(a, b) == IF a < b THEN a ELSE b

ZeroSample == [id |-> 0, det |-> FALSE]

\* C conversion of a real quotient to int: truncation toward zero
TruncDiv(a, b) == IF a >= 0 THEN a \div b ELSE -((-a) \div b)

\* comparison of an int with an unsigned int: the int is converted to unsigned
UnsignedGe(a, b) == IF a < 0 THEN TRUE ELSE a >= b

\* buf_out is the sequence of the entries of the allocation that have been
\* written, buf_out[i + 1] being the C entry buf_out[i]; the entries past it are
\* indeterminate.  Store is the C assignment buf[i] = x, 0 <= i <= Len(buf).
Store(buf, i, x) == IF i < Len(buf) THEN [buf EXCEPT ![i + 1] = x] ELSE Append(buf, x)

\* what the environment has seen of the object since its last reset: the
\* symbols written to the buffer (appended), those handed to the callback
\* (delivered), those of windows flushed with no callback bound (lost), the
\* number of windows handed over by set_buf_len (shrunk), the number of
\* decimated samples passed to append since the last handoff (since_handoff)
\* the number of handoffs (handoffs) and the number of samples stepped since
\* the last decimated output or handoff (since_output)
EmptyHist == [delivered |-> <<>>, appended |-> <<>>, lost |-> <<>>, shrunk |-> 0, since_handoff |-> 0,
              handoffs |-> 0, since_output |-> 0]

Emit(c, e) == [c EXCEPT !.ev = Append(@, e)]

\* ------------------------------------------------- external collaborators
\* detector: buffer of the last DetBufLen samples consumed since its reset
qdetector_cccf_create == [counter |-> 0, buf |-> [i \in 1..DetBufLen |-> ZeroSample], tau_hat |-> 0]

qdetector_cccf_reset(d) == [d EXCEPT !.counter = 0, !.buf = [i \in 1..DetBufLen |-> ZeroSample]]

\* the detector after consuming x
qdetector_cccf_push(d, x) == [d EXCEPT !.counter = Min(@ + 1, DetBufLen), !.buf = Tail(@) \o <<x>>]

\* whether the detector, having consumed x, signals detection
qdetector_cccf_detected(d, x) == x.det /\ d.counter = DetBufLen

firpfb_crcf_create == [pushed |-> 0, scaled |-> FALSE]

firpfb_crcf_reset(mf) == [mf EXCEPT !.pushed = 0]

firpfb_crcf_push(mf, x) == [mf EXCEPT !.pushed = @ + 1]

\* the filtered sample: the symbol token of the sample pushed last
firpfb_crcf_execute(mf, i, x) == x.id

firpfb_crcf_set_scale(mf) == [mf EXCEPT !.scaled = TRUE]

nco_crcf_create == [tuned |-> FALSE]

nco_crcf_set(mixer) == [mixer EXCEPT !.tuned = TRUE]

\* ------------------------------------------------------------ the handlers
\* a reset that leaves the symbol counter as it is
qdsync_cccf_reset_keep_symbols(c) ==
    LET q1 == [c.q EXCEPT !.detector = qdetector_cccf_reset(@),
                          !.state = QDSYNC_STATE_DETECT,
                          !.buf_out_counter = 0,
                          !.mf = firpfb_crcf_reset(@)]
    IN  Emit([c EXCEPT !.q = q1, !.h = EmptyHist], [kind |-> "reset"])

\* a reset that leaves the state as it is
qdsync_cccf_reset_keep_state(c) ==
    LET q1 == [c.q EXCEPT !.detector = qdetector_cccf_reset(@),
                          !.symbol_counter = 0,
                          !.buf_out_counter = 0,
                          !.mf = firpfb_crcf_reset(@)]
    IN  Emit([c EXCEPT !.q = q1, !.h = EmptyHist], [kind |-> "reset"])

\* a reset that leaves the output counter as it is
qdsync_cccf_reset_keep_cursor(c) ==
    LET q1 == [c.q EXCEPT !.detector = qdetector_cccf_reset(@),
                          !.state = QDSYNC_STATE_DETECT,
                          !.symbol_counter = 0,
                          !.mf = firpfb_crcf_reset(@)]
    IN  Emit([c EXCEPT !.q = q1, !.h = EmptyHist], [kind |-> "reset"])

qdsync_cccf_reset(c) ==
    LET q1 == [c.q EXCEPT !.detector = qdetector_cccf_reset(@),
                          !.state = QDSYNC_STATE_DETECT,
                          !.symbol_counter = 0,
                          !.buf_out_counter = 0,
                          !.mf = firpfb_crcf_reset(@)]
    IN  Emit([c EXCEPT !.q = q1, !.h = EmptyHist], [kind |-> "reset"])

\* the user callback is entered with window win taken at offset off of buf_out
InvokeCallback(c, win, off, from) ==
    LET n  == c.ncb + 1
        rc == IF n \in c.plan THEN 1 ELSE 0
    IN  [c EXCEPT !.ncb = n,
                  !.rc = rc,
                  !.h.delivered = @ \o win,
                  !.h.shrunk = IF from = "set_buf_len" THEN @ + 1 ELSE @,
                  !.ev = Append(@, [kind |-> "callback", win |-> win, len |-> Len(win),
                                    off |-> off, ctx |-> c.q.context, rc |-> rc,
                                    from |-> from, q |-> c.q])]

\* a delay gate that lets the sample numbered 2m through
filter_delay_gate_short(qq) == qq.symbol_counter < 2 * qq.m

\* account for filter delay: whether the sample just counted is discarded
filter_delay_gate(qq) == qq.symbol_counter <= 2 * qq.m

\* a full test that fires one append late
buf_is_full_late(qq) == qq.buf_out_counter > qq.buf_out_len

\* check if buffer is full
buf_is_full(qq) == qq.buf_out_counter = qq.buf_out_len

\* a callback whose return code is dropped
callback_return_ignored(c) == c

\* if (rc) return qdsync_cccf_reset(_q)
callback_return(c) == IF c.rc # 0 THEN qdsync_cccf_reset(c) ELSE c

\* v++ on an unsigned counter of the given width; a counter of UINT_BITS bits
\* cannot come round within the sample bounds, and its modulus is not a value
\* of the model checker's integers
uint_inc(v, bits) == IF bits >= UINT_BITS THEN v + 1 ELSE (v + 1) % (2 ^ bits)

qdsync_cccf_buf_append_body(c, x) ==
    LET q1 == [c.q EXCEPT !.symbol_counter = uint_inc(@, c.q.symbol_counter_bits)]
    IN  IF filter_delay_gate(q1)
        THEN [c EXCEPT !.q = q1]
        ELSE LET q2 == [q1 EXCEPT !.buf_out = Store(@, q1.buf_out_counter, x),
                                  !.buf_out_counter = @ + 1]
                 c2 == [c EXCEPT !.q = q2, !.h.appended = Append(@, x)]
             IN  IF buf_is_full(q2)
                 THEN LET c3 == [c2 EXCEPT !.q.buf_out_counter = 0]
                      IN  IF c3.q.callback # NULL
                          THEN callback_return(InvokeCallback(c3, SubSeq(c3.q.buf_out, 1, c3.q.buf_out_len), 0, "buf_append"))
                          ELSE [c3 EXCEPT !.h.lost = @ \o SubSeq(c3.q.buf_out, 1, c3.q.buf_out_len)]
                 ELSE c2

\* append, with its event: nth is the rank of the call since the last handoff
qdsync_cccf_buf_append(c, x) ==
    LET nth == c.h.since_handoff + 1
        r   == qdsync_cccf_buf_append_body([c EXCEPT !.h.since_handoff = nth], x)
    IN  Emit(r, [kind |-> "append", x |-> x, nth |-> nth, pre |-> c.q, post |-> r.q,
                 ncb |-> r.ncb - c.ncb, held |-> Len(c.h.appended),
                 wrote |-> (r.ncb > c.ncb \/ Len(r.h.appended) > Len(c.h.appended))])

\* a counter that restarts from zero at every output
decimate_restart(cnt, k) == 0

\* _q->mf_counter -= _q->k
decimate(cnt, k) == cnt - k

qdsync_cccf_step(c, x, depth) ==
    LET mf1 == firpfb_crcf_push(c.q.mf, x)
        v   == firpfb_crcf_execute(mf1, c.q.pfb_index, x)
        cnt == c.q.mf_counter + 1
        sample_available == UnsignedGe(cnt, c.q.k - 1)
        q1  == [c.q EXCEPT !.mf = mf1,
                           !.mf_counter = IF sample_available THEN decimate(cnt, c.q.k) ELSE cnt]
        gap == c.h.since_output + 1
        c1  == Emit([c EXCEPT !.q = q1, !.h.since_output = IF sample_available THEN 0 ELSE gap],
                    [kind |-> "step", x |-> x, depth |-> depth, avail |-> sample_available,
                     pre |-> c.q, post |-> q1, gap |-> gap, nth |-> c.h.since_handoff + 1])
    IN  IF sample_available THEN qdsync_cccf_buf_append(c1, v) ELSE c1

RECURSIVE qdsync_cccf_execute(_, _, _)
RECURSIVE qdsync_cccf_execute_detect(_, _, _)
RECURSIVE execute_dispatch(_, _, _)

\* a conversion that rounds to the nearest integer, halves away from zero
tau_to_index_round(tau_hat, npfb) ==
    IF tau_hat >= 0
    THEN (2 * tau_hat * npfb + TauDen) \div (2 * TauDen)
    ELSE -((2 * (-tau_hat) * npfb + TauDen) \div (2 * TauDen))

\* (int)(tau_hat * npfb), tau_hat in units of 1/TauDen: the conversion of a
\* float to int discards the fractional part
tau_to_index(tau_hat, npfb) == TruncDiv(tau_hat * npfb, TauDen)

\* a branch index taken over as computed
wrap_index_none(index, npfb) == index

\* if (index < 0) index += npfb
wrap_index(index, npfb) == IF index < 0 THEN index + npfb ELSE index

\* a replay that leaves out the first sample of the window
handoff_window_tail(d) == Tail(d.buf)

\* the window the detector hands over: v with buf_len samples
handoff_window(d) == d.buf

qdsync_cccf_execute_detect(c, x, depth) ==
    LET d1  == qdetector_cccf_push(c.q.detector, x)
        hit == qdetector_cccf_detected(d1, x)
    IN  IF ~hit
        THEN Emit([c EXCEPT !.q.detector = d1],
                  [kind |-> "detect", x |-> x, depth |-> depth, hit |-> FALSE])
        ELSE LET d2    == [d1 EXCEPT !.tau_hat = c.tau]
                 index == tau_to_index(d2.tau_hat, c.q.npfb)
                 q1    == [c.q EXCEPT !.detector = d2,
                                      !.mf_counter = IF index < 0 THEN c.q.k - 2 + 1 ELSE c.q.k - 2,
                                      !.pfb_index = wrap_index(index, c.q.npfb),
                                      !.mf = firpfb_crcf_set_scale(@),
                                      !.mixer = nco_crcf_set(@),
                                      !.state = QDSYNC_STATE_SYNC]
                 c1    == Emit(Emit([c EXCEPT !.q = q1, !.h.since_handoff = 0, !.h.handoffs = @ + 1,
                                              !.h.since_output = 0],
                                    [kind |-> "detect", x |-> x, depth |-> depth, hit |-> TRUE]),
                               [kind |-> "handoff", tau |-> d2.tau_hat, v |-> d2.buf,
                                depth |-> depth, post |-> q1])
             IN  qdsync_cccf_execute(c1, handoff_window(d2), depth + 1)

\* a dispatch that keeps to the SYNC path once a callback has asked for a
\* reset during the call
execute_dispatch_stale(c, x, depth) ==
    IF c.q.state = QDSYNC_STATE_DETECT /\ \A i \in DOMAIN c.ev : c.ev[i].kind # "reset"
    THEN qdsync_cccf_execute_detect(c, x, depth)
    ELSE qdsync_cccf_step(c, x, depth)

\* a dispatch that sends every sample of the handed-off window to the SYNC path
execute_dispatch_window_sync(c, x, depth) ==
    IF c.q.state = QDSYNC_STATE_DETECT /\ depth = 0
    THEN qdsync_cccf_execute_detect(c, x, depth)
    ELSE qdsync_cccf_step(c, x, depth)

\* switch (_q->state), evaluated for every sample
execute_dispatch(c, x, depth) ==
    IF c.q.state = QDSYNC_STATE_DETECT
    THEN qdsync_cccf_execute_detect(c, x, depth)
    ELSE qdsync_cccf_step(c, x, depth)

qdsync_cccf_execute(c, buf, depth) ==
    IF buf = <<>>
    THEN c
    ELSE qdsync_cccf_execute(execute_dispatch(c, Head(buf), depth), Tail(buf), depth)

qdsync_cccf_is_open(qq) == IF qq.state = QDSYNC_STATE_DETECT THEN 0 ELSE 1

\* the shrink loop of set_buf_len: windows of _buf_len samples from offset index
\* a read offset that is never advanced
flush_advance_none(index, _buf_len) == index

\* index += _buf_len
flush_advance(index, _buf_len) == index + _buf_len

\* a window that always starts at the front of the buffer
flush_window_front(buf, index, _buf_len) == SubSeq(buf, 1, _buf_len)

\* _q->buf_out + index, _buf_len: the window of _buf_len samples at offset index
flush_window(buf, index, _buf_len) == SubSeq(buf, index + 1, index + _buf_len)

\* a loop that stops one window early
flush_more_strict(counter, _buf_len) == counter > _buf_len

\* while (_q->buf_out_counter >= _buf_len)
flush_more(counter, _buf_len) == counter >= _buf_len

RECURSIVE set_buf_len_flush(_, _, _)

set_buf_len_flush(c, index, _buf_len) ==
    IF flush_more(c.q.buf_out_counter, _buf_len)
    THEN LET c1 == IF c.q.callback # NULL
                   THEN InvokeCallback(c, flush_window(c.q.buf_out, index, _buf_len), index, "set_buf_len")
                   ELSE [c EXCEPT !.h.lost = @ \o flush_window(c.q.buf_out, index, _buf_len)]
         IN  set_buf_len_flush([c1 EXCEPT !.q.buf_out_counter = @ - _buf_len], flush_advance(index, _buf_len), _buf_len)
    ELSE [c EXCEPT !.index = index]

\* no copy of the residual samples
memmove_none(buf, index, n) == buf

\* memmove(buf, buf + index, n): entries [index, index + n) are copied to the front
memmove(buf, index, n) == [i \in 1..Len(buf) |-> IF i <= n THEN buf[index + i] ELSE buf[i]]

\* a new allocation that does not take the old contents over
realloc_fresh(buf, n) == <<>>

\* realloc to n entries: the common prefix is kept, a longer allocation gains
\* only indeterminate entries
realloc(buf, n) == SubSeq(buf, 1, Min(Len(buf), n))

\* a rejection that comes after the length has been recorded
set_buf_len_reject_late(c) == [c EXCEPT !.q.buf_out_len = 0, !.rc = "LIQUID_EICONFIG"]

\* return liquid_error(LIQUID_EICONFIG, ...)
set_buf_len_reject(c) == [c EXCEPT !.rc = "LIQUID_EICONFIG"]

\* the end of both paths of set_buf_len: the new length is recorded, then
\* realloc is called; when it returns NULL (c.nomem) the call returns the error
\* and the old block, of buf_out_size entries, stays in place
set_buf_len_realloc(c, buf, _buf_len) ==
    LET c1 == [c EXCEPT !.q.buf_out_len = _buf_len, !.q.buf_out = buf]
    IN  IF c.nomem
        THEN [c1 EXCEPT !.rc = "LIQUID_EIMEM"]
        ELSE [c1 EXCEPT !.q.buf_out = realloc(buf, _buf_len),
                        !.q.buf_out_size = _buf_len,
                        !.rc = "LIQUID_OK"]

qdsync_cccf_set_buf_len(c, _buf_len) ==
    IF _buf_len = 0
    THEN set_buf_len_reject(c)
    ELSE IF c.q.buf_out_counter < _buf_len
         THEN set_buf_len_realloc(c, c.q.buf_out, _buf_len)
         ELSE LET c1 == set_buf_len_flush(c, 0, _buf_len)
                  b1 == memmove(c1.q.buf_out, c1.index, c1.q.buf_out_counter)
              IN  set_buf_len_realloc(c1, b1, _buf_len)

\* create assigns neither mf_counter nor pfb_index: they hold what malloc left
\* there until the first handoff assigns them, and no arithmetic applies to
\* that value
UNINIT == "uninitialized"

qdsync_cccf_create_linear(_k, _m, _callback, _context) ==
    [k |-> _k, m |-> _m, callback |-> _callback, context |-> _context,
     detector |-> qdetector_cccf_create,
     state |-> QDSYNC_STATE_DETECT,
     symbol_counter |-> 0,
     symbol_counter_bits |-> UINT_BITS,
     mixer |-> nco_crcf_create,
     mf |-> firpfb_crcf_create,
     npfb |-> NPFB,
     mf_counter |-> UNINIT,
     pfb_index |-> UNINIT,
     buf_out_len |-> BUF_OUT_LEN_INIT,
     buf_out |-> <<>>,
     buf_out_size |-> BUF_OUT_LEN_INIT,
     buf_out_counter |-> 0]

\* the sub-objects a synchronizer points to
POINTERS == {"detector", "mixer", "mf", "buf_out"}

\* memmove(q_copy, q_orig, sizeof(struct qdsync_cccf_s)): every field is copied,
\* the pointers too, so the new struct points to the sub-objects of the
\* original (shared) until they are replaced
struct_copy(q_orig) == [made |-> TRUE, q |-> q_orig, shared |-> POINTERS]

\* q_copy->f = f_copy(q_orig->f): a new sub-object with the contents of the old
sub_object_copy(t, q_orig, f) == [t EXCEPT !.q[f] = q_orig[f], !.shared = @ \ {f}]

\* liquid_malloc_copy(buf, n, size): a new block of n entries with the first n
\* entries of buf
liquid_malloc_copy(buf, n) == SubSeq(buf, 1, Min(Len(buf), n))

\* a copy that keeps the buffer pointer of the original
copy_buf_out_none(t, q_orig) == t

\* q_copy->buf_out = liquid_malloc_copy(q_orig->buf_out, q_orig->buf_out_len, ...)
copy_buf_out(t, q_orig) ==
    [t EXCEPT !.q.buf_out = liquid_malloc_copy(q_orig.buf_out, q_orig.buf_out_len),
              !.q.buf_out_size = q_orig.buf_out_len,
              !.shared = @ \ {"buf_out"}]

qdsync_cccf_copy(q_orig) ==
    LET t0 == struct_copy(q_orig)
        t1 == [t0 EXCEPT !.q.callback = q_orig.callback, !.q.context = q_orig.context]
        t2 == sub_object_copy(t1, q_orig, "detector")
        t3 == sub_object_copy(t2, q_orig, "mixer")
        t4 == sub_object_copy(t3, q_orig, "mf")
    IN  copy_buf_out(t4, q_orig)

\* no copy has been made
NoTwin == [made |-> FALSE]

\* object obj after a call on the other object left that one as other: the
\* sub-objects the two share are the same storage, the buffer with its size
Aliased(obj, other, shared) ==
    [f \in DOMAIN obj |->
        IF f \in shared \/ (f = "buf_out_size" /\ "buf_out" \in shared) THEN other[f] ELSE obj[f]]

\* --------------------------------------------------------------- the calls
\* the context in which a public call on object qq starts
Call(qq, h, plan, tau) ==
    [q |-> qq, h |-> h, ev |-> <<>>, ncb |-> 0, rc |-> 0, plan |-> plan, tau |-> tau, index |-> 0,
     nomem |-> FALSE]

Plans == SUBSET (1..MaxCbPlan)

\* the blocks of n samples that continue the input stream
Blocks(n) == { [i \in 1..n |-> [id |-> next_id + i - 1, det |-> f[i]]] : f \in [1..n -> BOOLEAN] }

\* the timing estimates the detector may report during a call on block _buf:
\* it reports one only when it signals a detection
Taus(_buf, grid) == IF \E i \in DOMAIN _buf : _buf[i].det THEN grid ELSE {0}

\* the state after create, for samples per symbol in ks, filter semi-lengths
\* in ms and callbacks in cbs, symbol_counter being bits wide
InitBits(ks, ms, cbs, bits) ==
    /\ \E _k \in ks, _m \in ms, _cb \in cbs, _ctx \in Contexts :
          q = [qdsync_cccf_reset(Call(qdsync_cccf_create_linear(_k, _m, _cb, _ctx), EmptyHist, {}, 0)).q
                  EXCEPT !.symbol_counter_bits = bits]
    /\ hist = EmptyHist
    /\ last = [op |-> "create", pre |-> q, ev |-> <<>>, rc |-> "LIQUID_OK"]
    /\ next_id = 1
    /\ twin = NoTwin

InitFor(ks, ms, cbs) == InitBits(ks, ms, cbs, UINT_BITS)

InitOn(ks) == InitFor(ks, Ms, {NULL, USER_CALLBACK})

Init == InitOn(Ks)

\* one execute call, the detector's timing estimate drawn from grid
ExecuteOn(grid, max) ==
    \E n \in 1..MaxBlock, plan \in Plans :
       /\ next_id + n - 1 <= max
       /\ \E _buf \in Blocks(n) :
             \E tau \in Taus(_buf, grid) :
                LET r == qdsync_cccf_execute(Call(q, hist, plan, tau), _buf, 0)
                IN  /\ q' = r.q
                    /\ hist' = r.h
                    /\ last' = [op |-> "execute", pre |-> q, ev |-> r.ev, rc |-> "LIQUID_OK", buf |-> _buf]
       /\ next_id' = next_id + n
       /\ UNCHANGED twin

Execute == ExecuteOn(TauNums, MaxSamples)

Reset ==
    LET r == qdsync_cccf_reset(Call(q, hist, {}, 0))
    IN  /\ q' = r.q
        /\ hist' = r.h
        /\ last' = [op |-> "reset", pre |-> q, ev |-> r.ev, rc |-> "LIQUID_OK"]
        /\ UNCHANGED <<next_id, twin>>

SetBufLen ==
    \E _buf_len \in 0..MaxBufLen, plan \in Plans :
       LET r == qdsync_cccf_set_buf_len(Call(q, hist, plan, 0), _buf_len)
       IN  /\ q' = r.q
           /\ hist' = r.h
           /\ last' = [op |-> "set_buf_len", pre |-> q, ev |-> r.ev, rc |-> r.rc, len |-> _buf_len]
           /\ UNCHANGED <<next_id, twin>>

SetCallback ==
    \E _callback \in {NULL, USER_CALLBACK} :
       /\ q' = [q EXCEPT !.callback = _callback]
       /\ last' = [op |-> "set_callback", pre |-> q, ev |-> <<>>, rc |-> "LIQUID_OK"]
       /\ UNCHANGED <<hist, next_id, twin>>

Next == Execute \/ Reset \/ SetBufLen \/ SetCallback

Spec == Init /\ [][Next]_vars

\* the same calls with the timing estimate drawn from the wider grid
ExecuteTau == ExecuteOn(TauGrid, MaxSamplesTau)

NextTau == ExecuteTau \/ Reset \/ SetBufLen \/ SetCallback

SpecTau == Init /\ [][NextTau]_vars

\* the original and its copy: calls on either of the two objects
Objects == IF twin.made THEN {"orig", "copy"} ELSE {"orig"}

\* the object a call is made on, and the other one
Target(on) == IF on = "orig" THEN [made |-> TRUE, q |-> q] ELSE twin

Other(on) == IF on = "orig" THEN twin ELSE [made |-> TRUE, q |-> q]

\* the call on object on ended in context r; the histories are not kept for
\* two objects
Commit(on, op, r) ==
    /\ last' = [op |-> op, on |-> on, other |-> [made |-> Other(on).made, q |-> IF Other(on).made THEN Other(on).q ELSE NULL], rc |-> r.rc]
    /\ IF on = "orig"
       THEN /\ q' = r.q
            /\ twin' = IF twin.made THEN [twin EXCEPT !.q = Aliased(@, r.q, twin.shared)] ELSE twin
       ELSE /\ twin' = [twin EXCEPT !.q = r.q]
            /\ q' = Aliased(q, r.q, twin.shared)
    /\ UNCHANGED hist

Copy ==
    /\ ~twin.made
    /\ twin' = qdsync_cccf_copy(q)
    /\ last' = [op |-> "copy", on |-> "orig", other |-> [made |-> TRUE, q |-> q], rc |-> "LIQUID_OK"]
    /\ UNCHANGED <<q, hist, next_id>>

ExecuteEither ==
    \E on \in Objects, n \in 1..MaxBlock, plan \in Plans :
       /\ next_id + n - 1 <= MaxSamplesCopy
       /\ \E _buf \in Blocks(n) :
             \E tau \in Taus(_buf, TauNums) :
                Commit(on, "execute", qdsync_cccf_execute(Call(Target(on).q, EmptyHist, plan, tau), _buf, 0))
       /\ next_id' = next_id + n

ResetEither ==
    \E on \in Objects :
       /\ Commit(on, "reset", qdsync_cccf_reset(Call(Target(on).q, EmptyHist, {}, 0)))
       /\ UNCHANGED next_id

SetBufLenEither ==
    \E on \in Objects, _buf_len \in 0..MaxBufLen, plan \in Plans :
       /\ Commit(on, "set_buf_len", qdsync_cccf_set_buf_len(Call(Target(on).q, EmptyHist, plan, 0), _buf_len))
       /\ UNCHANGED next_id

NextCopy == Copy \/ ExecuteEither \/ ResetEither \/ SetBufLenEither

\* the original is created with a callback and without filter delay, so that
\* its buffer fills from the first symbol on
InitCopy == InitFor(Ks, {0}, {USER_CALLBACK})

SpecCopy == InitCopy /\ [][NextCopy]_vars

\* set_buf_len when realloc returns NULL
SetBufLenNoMem ==
    \E _buf_len \in 1..MaxBufLen, plan \in Plans :
       LET r == qdsync_cccf_set_buf_len([Call(q, hist, plan, 0) EXCEPT !.nomem = TRUE], _buf_len)
       IN  /\ q' = r.q
           /\ hist' = r.h
           /\ last' = [op |-> "set_buf_len", pre |-> q, ev |-> r.ev, rc |-> r.rc, len |-> _buf_len]
           /\ UNCHANGED <<next_id, twin>>

\* the recorded capacity does not exceed the block that buf_out points to
StorageHolds(qq) == qq.buf_out_len <= qq.buf_out_size

\* execute on an object whose recorded capacity exceeds its block may write
\* past the block; what such a call does is undefined and is left out
ExecuteInStorage == StorageHolds(q) /\ Execute

NextAlloc == ExecuteInStorage \/ Reset \/ SetBufLen \/ SetCallback \/ SetBufLenNoMem

SpecAlloc == Init /\ [][NextAlloc]_vars

\* a long frame on a synchronizer with filter delay whose symbol counter is
\* SymbolCounterBits wide
InitWrap == InitBits(Ks, {1}, {USER_CALLBACK}, SymbolCounterBits)

ExecuteWrap == ExecuteOn(TauNums, MaxSamplesWrap)

NextWrap == ExecuteWrap \/ Reset

SpecWrap == InitWrap /\ [][NextWrap]_vars

\* the calls that feed and restart the decimator, for two and three samples
\* per symbol
InitTiming == InitOn(KsTiming)

NextTiming == Execute \/ Reset

SpecTiming == InitTiming /\ [][NextTiming]_vars

\* ------------------------------------------------------------- observations
IsCallback(e) == e.kind = "callback"

IsAppend(e) == e.kind = "append"

IsReset(e) == e.kind = "reset"

\* the callback invocations of the last call, in order
CallbackEvents == SelectSeq(last.ev, IsCallback)

\* the detector as reset leaves it: no sample consumed, empty window
DetectorJustReset(d) == d.counter = 0 /\ \A i \in DOMAIN d.buf : d.buf[i] = ZeroSample

\* the valid region [0, cursor) of the buffer of object qq
Held(qq) == SubSeq(qq.buf_out, 1, qq.buf_out_counter)

\* ------------------------------------------------------------------ claims

\* C1: set_buf_len(L) with a callback bound and 0 < L <= c, c the number of
\* unconsumed samples: the callback is invoked floor(c / L) times, each time
\* with L samples, the windows being the consecutive slices of the original
\* contents in order; afterwards cursor = c mod L, capacity = L and the entries
\* [0, c mod L) are the original tail.
ShrinkPreservesData ==
    (last.op = "set_buf_len" /\ last.pre.callback # NULL
        /\ 0 < last.len /\ last.len <= last.pre.buf_out_counter)
    => LET c    == last.pre.buf_out_counter
           L    == last.len
           orig == Held(last.pre)
           cbs  == CallbackEvents
       IN  /\ Len(cbs) = c \div L
           /\ \A i \in 1..Len(cbs) :
                 /\ cbs[i].len = L
                 /\ cbs[i].off = (i - 1) * L
                 /\ cbs[i].win = SubSeq(orig, (i - 1) * L + 1, i * L)
           /\ q.buf_out_counter = c % L
           /\ q.buf_out_len = L
           /\ Held(q) = SubSeq(orig, c - (c % L) + 1, c)

\* C1 witness: a shrink that delivered a window and left a residual behind it
ShrinkWitness ==
    /\ last.op = "set_buf_len" /\ last.pre.callback # NULL
    /\ 0 < last.len /\ last.len <= last.pre.buf_out_counter
    /\ Len(CallbackEvents) >= 1
    /\ q.buf_out_counter >= 1

\* C2: set_buf_len(B) with cursor n < B invokes no callback, leaves the cursor
\* at n and the entries [0, n) unchanged in place, and sets the capacity to B.
GrowPreservesData ==
    (last.op = "set_buf_len" /\ 0 < last.len /\ last.pre.buf_out_counter < last.len)
    => /\ last.ev = <<>>
       /\ q.buf_out_counter = last.pre.buf_out_counter
       /\ Len(q.buf_out) >= q.buf_out_counter
       /\ Held(q) = Held(last.pre)
       /\ q.buf_out_len = last.len

\* C2 witness: a buffer holding samples is grown from length A to B > A
GrowWitness ==
    /\ last.op = "set_buf_len"
    /\ last.pre.buf_out_counter >= 1
    /\ last.len > last.pre.buf_out_len
    /\ q.buf_out_len = last.len

\* C3: set_buf_len(0) returns the configuration error and changes nothing, in
\* whatever state and with whatever occupancy it is called; no callback runs.
ZeroLengthRejected ==
    (last.op = "set_buf_len" /\ last.len = 0)
    => /\ last.rc = "LIQUID_EICONFIG"
       /\ q = last.pre
       /\ last.ev = <<>>

\* C3 witness: the call is made on an open synchronizer holding samples
ZeroLengthWitness ==
    /\ last.op = "set_buf_len" /\ last.len = 0
    /\ q.state = QDSYNC_STATE_SYNC
    /\ q.buf_out_counter >= 1

\* C4: since the last reset, as long as every flushed window went to a bound
\* callback, the windows handed to the callback, in order, followed by the
\* buffer contents [0, cursor), are the post-delay decimated samples in the
\* order they were appended.
DeliveredInOrder ==
    hist.lost = <<>> => hist.delivered \o Held(q) = hist.appended

\* C4 witness: a shrink flush was followed by a further append
DeliveredInOrderWitness ==
    /\ hist.lost = <<>>
    /\ hist.shrunk >= 1
    /\ last.op = "execute"
    /\ \E i \in DOMAIN last.ev : IsAppend(last.ev[i]) /\ last.ev[i].nth > 2 * q.m

\* the callback invocation made by the append whose event is last.ev[i]: the
\* event before it, or before the reset that the callback asked for
CallbackOf(i) == IF IsReset(last.ev[i - 1]) THEN last.ev[i - 2] ELSE last.ev[i - 1]

CursorWithinCapacity(qq) == qq.buf_out_counter <= qq.buf_out_len

\* whether append event e wrote its sample and the cursor thereby reached capacity
ReachedCapacity(e) ==
    /\ Len(e.post.buf_out) >= e.pre.buf_out_counter + 1
    /\ e.post.buf_out[e.pre.buf_out_counter + 1] = e.x
    /\ e.nth > 2 * e.pre.m
    /\ e.pre.buf_out_counter + 1 = e.pre.buf_out_len

\* C5: the cursor never exceeds the capacity, at the return of a call and at
\* every point of a call; with a callback bound, an append invokes the callback
\* exactly when it makes the cursor reach capacity: once, with the buffer start
\* and the capacity as length, the cursor being 0 afterwards.
CallbackExactlyWhenFull ==
    /\ CursorWithinCapacity(q)
    /\ \A i \in DOMAIN last.ev :
          LET e == last.ev[i]
          IN  /\ e.kind \in {"append", "step"} => CursorWithinCapacity(e.pre) /\ CursorWithinCapacity(e.post)
              /\ IsCallback(e) => CursorWithinCapacity(e.q)
              /\ (IsAppend(e) /\ e.pre.callback # NULL) =>
                    IF ReachedCapacity(e)
                    THEN /\ e.ncb = 1
                         /\ IsCallback(CallbackOf(i))
                         /\ CallbackOf(i).off = 0
                         /\ CallbackOf(i).len = e.pre.buf_out_len
                         /\ CallbackOf(i).win = SubSeq(e.post.buf_out, 1, e.pre.buf_out_len)
                         /\ CallbackOf(i).q.buf_out_counter = 0
                         /\ e.post.buf_out_counter = 0
                    ELSE e.ncb = 0
              /\ (IsCallback(e) /\ e.from = "buf_append") => i < Len(last.ev)

\* C5 witness: one call with an append that filled a buffer of two entries
\* and an append that did not
CallbackWhenFullWitness ==
    /\ last.op = "execute"
    /\ \E i, j \in DOMAIN last.ev :
          /\ IsAppend(last.ev[i]) /\ last.ev[i].ncb = 1 /\ last.ev[i].pre.buf_out_len = 2
          /\ IsAppend(last.ev[j]) /\ last.ev[j].ncb = 0 /\ last.ev[j].post.buf_out_counter = 1

\* C6: after every handoff the first 2m decimated samples passed to append are
\* discarded, the buffer, the cursor and the callback untouched, and the
\* (2m+1)-th is the first one written, at position 0.
FilterDelayGating ==
    \A i \in DOMAIN last.ev :
       LET e == last.ev[i]
       IN  IsAppend(e) =>
              /\ e.nth <= 2 * e.pre.m =>
                    /\ e.post.buf_out = e.pre.buf_out
                    /\ e.post.buf_out_counter = e.pre.buf_out_counter
                    /\ e.ncb = 0
              /\ e.nth = 2 * e.pre.m + 1 =>
                    /\ e.pre.buf_out_counter = 0
                    /\ Len(e.post.buf_out) >= 1
                    /\ e.post.buf_out[1] = e.x

\* C6 witness: with m = 1 the third decimated sample after a handoff is written
FilterDelayWitness ==
    \E i \in DOMAIN last.ev :
       /\ IsAppend(last.ev[i])
       /\ last.ev[i].pre.m = 1
       /\ last.ev[i].nth = 3
       /\ last.ev[i].post.buf_out_counter = 1

\* C7: when the callback invoked by append returns non-zero, the synchronizer
\* is fully reset before append returns (state DETECT, symbol_counter 0, cursor
\* 0, detector reset, filter bank memory reset); when it returns 0 the state
\* stays SYNC and symbol_counter is as it was when the callback was entered.
CallbackResetOnFull ==
    \A i \in DOMAIN last.ev :
       LET e == last.ev[i]
       IN  (IsAppend(e) /\ e.ncb = 1) =>
              /\ CallbackOf(i).rc # 0 =>
                    /\ e.post.state = QDSYNC_STATE_DETECT
                    /\ e.post.symbol_counter = 0
                    /\ e.post.buf_out_counter = 0
                    /\ DetectorJustReset(e.post.detector)
                    /\ e.post.mf.pushed = 0
              /\ CallbackOf(i).rc = 0 =>
                    /\ e.post.state = QDSYNC_STATE_SYNC
                    /\ e.post.symbol_counter = CallbackOf(i).q.symbol_counter
                    /\ e.post.symbol_counter = e.pre.symbol_counter + 1

\* C7 witness: the callback returned non-zero on a full buffer of two entries
CallbackResetWitness ==
    \E i \in DOMAIN last.ev :
       /\ IsAppend(last.ev[i]) /\ last.ev[i].ncb = 1
       /\ CallbackOf(i).rc # 0
       /\ last.ev[i].pre.buf_out_len = 2
       /\ last.ev[i].pre.mf.pushed >= 1

\* C8: every callback invocation that returns non-zero is followed at once by
\* a full reset, in execute and in set_buf_len alike.
NonzeroCallbackAlwaysResets ==
    /\ \A i \in DOMAIN last.ev :
          (IsCallback(last.ev[i]) /\ last.ev[i].rc # 0) =>
             i < Len(last.ev) /\ IsReset(last.ev[i + 1])
    /\ (last.op = "set_buf_len" /\ \E i \in DOMAIN last.ev : IsCallback(last.ev[i]) /\ last.ev[i].rc # 0)
          => /\ q.state = QDSYNC_STATE_DETECT
             /\ q.symbol_counter = 0
             /\ DetectorJustReset(q.detector)

\* C9, as stated: at the return of an execute call in which the callback
\* returned non-zero, state is DETECT, symbol_counter is 0, the cursor is 0 and
\* the detector is just reset.
ExecuteReturnsFreshAfterCallbackReset ==
    (last.op = "execute" /\ \E i \in DOMAIN last.ev : IsCallback(last.ev[i]) /\ last.ev[i].rc # 0)
    => /\ q.state = QDSYNC_STATE_DETECT
       /\ q.symbol_counter = 0
       /\ q.buf_out_counter = 0
       /\ DetectorJustReset(q.detector)

\* the events of the last call that follow the append of its last reset
AfterLastReset ==
    LET r == CHOOSE i \in DOMAIN last.ev :
                IsReset(last.ev[i]) /\ \A j \in DOMAIN last.ev : j > i => ~IsReset(last.ev[j])
    IN  SubSeq(last.ev, r + 2, Len(last.ev))

\* C9, amended: the samples that remain after a callback-requested reset are
\* handed to the detector; at the return of the execute call the detector has
\* consumed exactly those samples and, unless it signalled a new detection on
\* them, state is DETECT, symbol_counter is 0 and the cursor is 0; the detector
\* is just reset when no sample remained.
ExecuteAfterCallbackReset ==
    (last.op = "execute" /\ \E i \in DOMAIN last.ev : IsReset(last.ev[i]))
    => LET tail == AfterLastReset
       IN  /\ tail # <<>> => tail[1].kind = "detect"
           /\ tail = <<>> => DetectorJustReset(q.detector)
           /\ (\A j \in DOMAIN tail : tail[j].kind # "handoff") =>
                 /\ q.state = QDSYNC_STATE_DETECT
                 /\ q.symbol_counter = 0
                 /\ q.buf_out_counter = 0
                 /\ \A j \in DOMAIN tail : tail[j].kind = "detect"
                 /\ q.detector.counter = Min(Len(tail), DetBufLen)
                 /\ \A j \in DOMAIN tail :
                       Len(tail) - j < DetBufLen => q.detector.buf[DetBufLen - (Len(tail) - j)] = tail[j].x

\* C9 witness: a sample of the block remained after the reset and went to the
\* detector
ExecuteAfterCallbackResetWitness ==
    /\ last.op = "execute"
    /\ \E i \in DOMAIN last.ev : IsReset(last.ev[i])
    /\ AfterLastReset # <<>>
    /\ q.state = QDSYNC_STATE_DETECT
    /\ q.detector.counter >= 1

\* C10: reset leaves state DETECT, symbol_counter 0 and cursor 0, leaves
\* capacity, callback, context, k, m and npfb unchanged, and a second reset in
\* a row changes nothing.
ResetIdempotent ==
    last.op = "reset"
    => /\ q.state = QDSYNC_STATE_DETECT
       /\ q.symbol_counter = 0
       /\ q.buf_out_counter = 0
       /\ q.buf_out_len = last.pre.buf_out_len
       /\ q.callback = last.pre.callback
       /\ q.context = last.pre.context
       /\ q.k = last.pre.k /\ q.m = last.pre.m /\ q.npfb = last.pre.npfb
       /\ qdsync_cccf_reset(Call(q, hist, {}, 0)).q = q

\* C10 witness: reset is called on an open synchronizer that holds samples
ResetWitness ==
    /\ last.op = "reset"
    /\ last.pre.state = QDSYNC_STATE_SYNC
    /\ last.pre.symbol_counter >= 1
    /\ last.pre.buf_out_counter >= 1

IsHandoff(e) == e.kind = "handoff"

\* the last event of the last call that is a handoff or a reset, 0 if none
LastTransition ==
    LET S == {i \in DOMAIN last.ev : IsHandoff(last.ev[i]) \/ IsReset(last.ev[i])}
    IN  IF S = {} THEN 0 ELSE CHOOSE i \in S : \A j \in S : j <= i

\* C12: since the last reset (creation included) the state has gone from
\* DETECT to SYNC at most once, and exactly once when it is SYNC, however
\* often the detector would signal; the state becomes SYNC only at a handoff,
\* which follows a detection signalled by the detector, and DETECT only at a
\* reset, explicit or asked for by the callback; is_open() is 1 exactly when
\* the state is SYNC.
RoundTripDetection ==
    /\ hist.handoffs <= 1
    /\ (q.state = QDSYNC_STATE_SYNC) <=> (hist.handoffs = 1)
    /\ (qdsync_cccf_is_open(q) = 1) <=> (q.state = QDSYNC_STATE_SYNC)
    /\ last.op \in {"set_buf_len", "set_callback"} => q.state = last.pre.state
    /\ last.op = "reset" => q.state = QDSYNC_STATE_DETECT
    /\ last.op = "execute" =>
          /\ q.state = IF LastTransition = 0 THEN last.pre.state
                       ELSE IF IsHandoff(last.ev[LastTransition]) THEN QDSYNC_STATE_SYNC
                       ELSE QDSYNC_STATE_DETECT
          /\ \A i \in DOMAIN last.ev :
                LET e == last.ev[i]
                IN  /\ IsHandoff(e) =>
                          /\ last.ev[i - 1].kind = "detect" /\ last.ev[i - 1].hit
                          /\ e.post.state = QDSYNC_STATE_SYNC
                    /\ IsReset(e) => IsCallback(last.ev[i - 1]) /\ last.ev[i - 1].rc # 0
                    /\ e.kind = "step" => e.pre.state = QDSYNC_STATE_SYNC /\ e.post.state = QDSYNC_STATE_SYNC
                    /\ (IsAppend(e) /\ e.post.state # e.pre.state) =>
                          IsReset(last.ev[i - 1]) /\ e.post.state = QDSYNC_STATE_DETECT
                    /\ (e.kind = "detect" /\ ~e.hit) =>
                          (i = Len(last.ev) => q.state = QDSYNC_STATE_DETECT)

\* C12 witness: an open synchronizer stays open over a later execute call whose
\* samples would make the detector signal again, the callback returning 0
RoundTripWitness ==
    /\ last.op = "execute"
    /\ last.pre.state = QDSYNC_STATE_SYNC
    /\ q.state = QDSYNC_STATE_SYNC
    /\ hist.handoffs = 1
    /\ \E i \in DOMAIN last.buf : last.buf[i].det
    /\ \E i \in DOMAIN last.ev : IsCallback(last.ev[i]) /\ last.ev[i].rc = 0

IsDispatch(e) == e.kind \in {"step", "detect"}

\* the positions, in the event log of the last call, of the samples dispatched
\* after event i, in order
DispatchedAfter(i) ==
    LET RECURSIVE from(_)
        from(j) == IF j > Len(last.ev) THEN <<>>
                   ELSE IF IsDispatch(last.ev[j]) THEN <<j>> \o from(j + 1)
                   ELSE from(j + 1)
    IN  from(i + 1)

\* the callback asks for no reset after event i and before the sample that
\* follows the first n samples dispatched after i
NoResetWithin(i, n) ==
    LET D   == DispatchedAfter(i)
        end == IF Len(D) > n THEN D[n + 1] ELSE Len(last.ev) + 1
    IN  \A j \in (i + 1)..(end - 1) : ~IsReset(last.ev[j])

\* C14: at a handoff the state is SYNC and, when the callback asks for no
\* reset during the window, the samples dispatched next are the samples of the
\* detector's window, each one once and in window order, every one of them to
\* the SYNC path inside the nested execute, before any further sample of the
\* caller's block.
HandoffReplaysWindow ==
    last.op = "execute" =>
        \A i \in DOMAIN last.ev :
            LET e == last.ev[i]
                D == DispatchedAfter(i)
            IN  IsHandoff(e) =>
                    /\ e.post.state = QDSYNC_STATE_SYNC
                    /\ NoResetWithin(i, Len(e.v)) =>
                          /\ Len(D) >= Len(e.v)
                          /\ \A j \in 1..Len(e.v) :
                                /\ last.ev[D[j]].kind = "step"
                                /\ last.ev[D[j]].x = e.v[j]
                                /\ last.ev[D[j]].depth = e.depth + 1
                                /\ last.ev[D[j]].pre.state = QDSYNC_STATE_SYNC
                          /\ \A j \in (Len(e.v) + 1)..Len(D) : last.ev[D[j]].depth <= e.depth

\* C14 witness: a detection on the first sample of a block of two, the window
\* replayed without a reset and the second sample of the block dispatched after it
HandoffReplaysWitness ==
    /\ last.op = "execute"
    /\ \E i \in DOMAIN last.ev :
          /\ IsHandoff(last.ev[i])
          /\ NoResetWithin(i, DetBufLen)
          /\ Len(DispatchedAfter(i)) = DetBufLen + 1
          /\ last.ev[DispatchedAfter(i)[DetBufLen + 1]].x = last.buf[Len(last.buf)]
          /\ last.ev[i].v[DetBufLen] # last.buf[Len(last.buf)]

\* the integer that tau / TauDen * npfb becomes when its fractional part is
\* discarded, stated by its bounds
Truncated(tau, npfb) ==
    CHOOSE i \in (-npfb)..npfb :
        IF tau >= 0
        THEN i * TauDen <= tau * npfb /\ tau * npfb < (i + 1) * TauDen
        ELSE (i - 1) * TauDen < tau * npfb /\ tau * npfb <= i * TauDen

\* twice the fractional part of |tau / TauDen * npfb| is at least one
FractionAtLeastHalf(tau, npfb) ==
    LET a == IF tau >= 0 THEN tau * npfb ELSE -(tau * npfb)
    IN  2 * (a % TauDen) >= TauDen

\* C15 as stated: at every handoff the branch index is round(tau * npfb); when
\* it is non-negative pfb_index is that value and mf_counter is k - 2, when it
\* is negative pfb_index is that value plus npfb and mf_counter is k - 1.
HandoffIndexRounded ==
    \A i \in DOMAIN last.ev :
        LET e == last.ev[i]
            r == tau_to_index_round(e.tau, e.post.npfb)
        IN  IsHandoff(e) =>
                IF r >= 0
                THEN e.post.pfb_index = r /\ e.post.mf_counter = e.post.k - 2
                ELSE e.post.pfb_index = r + e.post.npfb /\ e.post.mf_counter = e.post.k - 1

\* C15 amended: at every handoff the branch index is tau * npfb with its
\* fractional part discarded; when it is non-negative pfb_index is that value
\* and mf_counter is k - 2, when it is negative pfb_index is that value plus
\* npfb and mf_counter is k - 1.
HandoffIndexTruncated ==
    \A i \in DOMAIN last.ev :
        LET e == last.ev[i]
            t == Truncated(e.tau, e.post.npfb)
        IN  IsHandoff(e) =>
                IF t >= 0
                THEN e.post.pfb_index = t /\ e.post.mf_counter = e.post.k - 2
                ELSE e.post.pfb_index = t + e.post.npfb /\ e.post.mf_counter = e.post.k - 1

\* C15 witness: a handoff on a negative timing estimate whose product with npfb
\* has a fractional part of at least one half and a negative integer part
HandoffIndexWitness ==
    \E i \in DOMAIN last.ev :
        /\ IsHandoff(last.ev[i])
        /\ last.ev[i].tau < 0
        /\ FractionAtLeastHalf(last.ev[i].tau, last.ev[i].post.npfb)
        /\ Truncated(last.ev[i].tau, last.ev[i].post.npfb) < 0
        /\ last.ev[i].post.mf_counter = last.ev[i].post.k - 1

IsStep(e) == e.kind = "step"

\* the handoff that opened object qq took the wrap correction: the branch index
\* computed from the detector's timing estimate was negative
WrapCorrected(qq) == Truncated(qq.detector.tau_hat, qq.npfb) < 0

\* C16: every sample stepped in SYNC increments mf_counter and gives a
\* decimated output exactly when the incremented value is at least k - 1, and
\* then mf_counter is lowered by k; the first sample stepped after a handoff
\* gives an output; every later output follows the one before after exactly k
\* samples, but the second output after a wrap-corrected handoff, which follows
\* the first after k - 1 samples; -1 <= mf_counter <= k - 1 throughout SYNC.
DecimationTiming ==
    /\ q.state = QDSYNC_STATE_SYNC => -1 <= q.mf_counter /\ q.mf_counter <= q.k - 1
    /\ Len(SelectSeq(last.ev, IsAppend)) = Len(SelectSeq(last.ev, LAMBDA e : IsStep(e) /\ e.avail))
    /\ \A i \in DOMAIN last.ev :
          LET e   == last.ev[i]
              cnt == e.pre.mf_counter + 1
          IN  IsStep(e) =>
                  /\ -1 <= e.pre.mf_counter /\ e.pre.mf_counter <= e.pre.k - 1
                  /\ -1 <= e.post.mf_counter /\ e.post.mf_counter <= e.pre.k - 1
                  /\ e.avail <=> (cnt >= e.pre.k - 1)
                  /\ e.post.mf_counter = IF e.avail THEN cnt - e.pre.k ELSE cnt
                  /\ (i > 1 /\ IsHandoff(last.ev[i - 1])) => e.avail /\ e.nth = 1
                  /\ (e.avail /\ e.nth >= 2) =>
                        e.gap = IF e.nth = 2 /\ WrapCorrected(e.pre) THEN e.pre.k - 1 ELSE e.pre.k

\* C16 witness: with three samples per symbol, the second output after a
\* wrap-corrected handoff, two samples after the first
DecimationTimingWitness ==
    \E i \in DOMAIN last.ev :
        /\ IsStep(last.ev[i])
        /\ last.ev[i].avail
        /\ last.ev[i].nth = 2
        /\ last.ev[i].pre.k = 3
        /\ WrapCorrected(last.ev[i].pre)
        /\ last.ev[i].gap = 2

\* the appends of the last call that came after event i and left the state SYNC
AppendsInSyncAfter(i) ==
    Cardinality({j \in DOMAIN last.ev :
                    j > i /\ IsAppend(last.ev[j]) /\ last.ev[j].post.state = QDSYNC_STATE_SYNC})

DeliveredSamples == UNION {{CallbackEvents[i].win[j] : j \in DOMAIN CallbackEvents[i].win} : i \in DOMAIN CallbackEvents}

\* the unconsumed samples of object qq
HeldSamples(qq) == {Held(qq)[i] : i \in DOMAIN Held(qq)}

IsShrink == last.op = "set_buf_len" /\ 0 < last.len /\ last.len <= last.pre.buf_out_counter

\* C18 as stated: after set_buf_len(L) with 0 < L <= cursor, whatever the
\* callback binding, every sample that was held is in a window given to the
\* callback or is still held.
ShrinkDropsNoSample ==
    IsShrink => HeldSamples(last.pre) \subseteq (DeliveredSamples \cup HeldSamples(q))

\* C18 amended: after set_buf_len(L) with 0 < L <= c, c the cursor before: with
\* a callback bound every sample that was held is in a window given to the
\* callback or is still held; with no callback bound no window is given to
\* anyone, the last c mod L samples are still held and the c - c mod L samples
\* before them are in neither place.
ShrinkDropsNoSampleWhenBound ==
    IsShrink =>
        LET c    == last.pre.buf_out_counter
            L    == last.len
            orig == Held(last.pre)
        IN  IF last.pre.callback # NULL
            THEN /\ HeldSamples(last.pre) \subseteq (DeliveredSamples \cup HeldSamples(q))
                 /\ DeliveredSamples \cap HeldSamples(q) = {}
            ELSE /\ CallbackEvents = <<>>
                 /\ \A i \in 1..c : (orig[i] \in HeldSamples(q)) <=> (i > c - (c % L))

\* C18 witness: a shrink with no callback bound that kept a residual and lost
\* the window before it
ShrinkDropsWitness ==
    /\ IsShrink
    /\ last.pre.callback = NULL
    /\ q.buf_out_counter > 0
    /\ q.buf_out_counter < last.pre.buf_out_counter
    /\ ~(HeldSamples(last.pre) \subseteq HeldSamples(q))

\* the last handoff in the event log of the last call, 0 if none
LastHandoff ==
    LET S == {i \in DOMAIN last.ev : IsHandoff(last.ev[i])}
    IN  IF S = {} THEN 0 ELSE CHOOSE i \in S : \A j \in S : j <= i

\* C19: pfb_index is a valid branch, 0 <= pfb_index < npfb, whenever the state
\* is SYNC, for every timing estimate of the grid; it is assigned at a handoff
\* and nowhere else: step, append, reset, set_buf_len and set_callback leave it
\* as it is, and an execute call leaves it as its last handoff set it.
PfbIndexStable ==
    /\ q.state = QDSYNC_STATE_SYNC => 0 <= q.pfb_index /\ q.pfb_index < q.npfb
    /\ last.op \in {"reset", "set_buf_len", "set_callback"} => q.pfb_index = last.pre.pfb_index
    /\ last.op = "execute" =>
          q.pfb_index = IF LastHandoff = 0 THEN last.pre.pfb_index
                        ELSE last.ev[LastHandoff].post.pfb_index
    /\ \A i \in DOMAIN last.ev :
          LET e == last.ev[i]
          IN  /\ (IsStep(e) \/ IsAppend(e)) => e.post.pfb_index = e.pre.pfb_index
              /\ IsStep(e) => 0 <= e.pre.pfb_index /\ e.pre.pfb_index < e.pre.npfb
              /\ IsHandoff(e) => 0 <= e.post.pfb_index /\ e.post.pfb_index < e.post.npfb
              /\ (IsCallback(e) /\ e.q.state = QDSYNC_STATE_SYNC) =>
                    0 <= e.q.pfb_index /\ e.q.pfb_index < e.q.npfb

\* C19 witness: a synchronizer opened with the most negative timing estimate
\* of the grid, its wrapped branch index kept over a later set_buf_len
PfbIndexWitness ==
    /\ last.op = "set_buf_len"
    /\ last.rc = "LIQUID_OK"
    /\ q.state = QDSYNC_STATE_SYNC
    /\ WrapCorrected(q)
    /\ \A t \in TauGrid : q.detector.tau_hat <= t
    /\ q.pfb_index = Truncated(q.detector.tau_hat, q.npfb) + q.npfb

\* C13 as stated: a set_buf_len call whose reallocation fails returns an error
\* and leaves the recorded capacity as it was before the call, never above the
\* size of the block held.
AllocFailureKeepsCapacity ==
    (last.op = "set_buf_len" /\ last.rc = "LIQUID_EIMEM") =>
        /\ q.buf_out_len = last.pre.buf_out_len
        /\ q.buf_out_len <= q.buf_out_size

\* the cursor of object qq is an index into its buffer
CursorInside(qq) ==
    /\ 0 <= qq.buf_out_counter
    /\ qq.buf_out_counter < qq.buf_out_len
    /\ qq.buf_out_len <= qq.buf_out_size

\* C20: at the return of create, reset, execute, set_callback and set_buf_len,
\* every reallocation succeeding, and at every entry into the callback from
\* append, 0 <= cursor < capacity, the capacity being the size of the block
\* held: the next append writes inside the buffer.
CursorBelowCapacity ==
    /\ CursorInside(q)
    /\ \A i \in DOMAIN last.ev :
          (IsCallback(last.ev[i]) /\ last.ev[i].from = "buf_append") => CursorInside(last.ev[i].q)
    /\ \A i \in DOMAIN last.ev :
          IsAppend(last.ev[i]) => CursorInside(last.ev[i].pre) /\ CursorInside(last.ev[i].post)

\* C20 witness: the callback entered from an append that filled a buffer
\* shortened by set_buf_len, the cursor back at 0
CursorBelowCapacityWitness ==
    /\ last.op = "execute"
    /\ \E i \in DOMAIN last.ev :
          /\ IsCallback(last.ev[i])
          /\ last.ev[i].from = "buf_append"
          /\ last.ev[i].q.buf_out_counter = 0
          /\ last.ev[i].len = last.ev[i].q.buf_out_len
          /\ last.ev[i].len < BUF_OUT_LEN_INIT

\* what the claim compares of an object: state, counters, capacity, cursor and
\* the buffer contents, unconsumed samples included
Observed(qq) ==
    [state |-> qq.state, symbol_counter |-> qq.symbol_counter, mf_counter |-> qq.mf_counter,
     pfb_index |-> qq.pfb_index, buf_out_len |-> qq.buf_out_len,
     buf_out_counter |-> qq.buf_out_counter, buf_out |-> qq.buf_out, held |-> Held(qq)]

\* C11: the object made by copy has the state, counters, capacity, cursor and
\* buffer contents of the original; after that every execute, reset and
\* set_buf_len call on the original leaves the copy as it was, and every such
\* call on the copy leaves the original as it was.
CopyIndependent ==
    /\ last.op = "copy" => twin.made /\ Observed(twin.q) = Observed(q) /\ q = last.other.q
    /\ (last.op \in {"execute", "reset", "set_buf_len"} /\ last.other.made) =>
          IF last.on = "orig"
          THEN Observed(twin.q) = Observed(last.other.q) /\ twin.q = last.other.q
          ELSE Observed(q) = Observed(last.other.q) /\ q = last.other.q

\* C11 witness: a set_buf_len call on the copy that handed its unconsumed
\* samples to the callback and shortened its buffer, while the original still
\* holds the samples it held when the copy was made, at the capacity it had
CopyIndependentWitness ==
    /\ last.op = "set_buf_len"
    /\ last.on = "copy"
    /\ last.rc = "LIQUID_OK"
    /\ q.buf_out_counter > 1
    /\ twin.q.buf_out_counter = 0
    /\ twin.q.buf_out_len < q.buf_out_len
    /\ twin.q.state = q.state

\* the state in which the sample of event j of the last call was dispatched:
\* the one the last handoff or reset before j left, or the one the call began in
StateBefore(j) ==
    LET S == {i \in 1..(j - 1) : IsHandoff(last.ev[i]) \/ IsReset(last.ev[i])}
        t == IF S = {} THEN 0 ELSE CHOOSE i \in S : \A k \in S : k <= i
    IN  IF t = 0 THEN last.pre.state
        ELSE IF IsHandoff(last.ev[t]) THEN QDSYNC_STATE_SYNC
        ELSE QDSYNC_STATE_DETECT

\* the samples the last call dispatched at nesting depth d, in order
DispatchedAt(d) ==
    LET sel == SelectSeq(last.ev, LAMBDA e : IsDispatch(e) /\ e.depth = d)
    IN  [i \in DOMAIN sel |-> sel[i].x]

\* C21: in every execute call each sample, of the caller's block or of the
\* detector's window, goes to the detector when the state is DETECT at that
\* moment and to the SYNC path when it is SYNC, so the samples that follow a
\* reset asked for by the callback go to the detector; the call returns after
\* it has dispatched every sample of the block once, in order; when no callback
\* asks for a reset during the call, the samples of a handed-off window all go
\* to the SYNC path and the nesting is one level deep.
ExecuteRereadsState ==
    last.op = "execute" =>
        /\ DispatchedAt(0) = last.buf
        /\ \A j \in DOMAIN last.ev :
              LET e == last.ev[j]
              IN  /\ IsDispatch(e) =>
                        (e.kind = "detect") <=> (StateBefore(j) = QDSYNC_STATE_DETECT)
                  /\ IsHandoff(e) => DispatchedAt(e.depth + 1) # <<>>
        /\ (\A j \in DOMAIN last.ev : ~IsReset(last.ev[j])) =>
              \A j \in DOMAIN last.ev :
                  LET e == last.ev[j]
                  IN  IsDispatch(e) =>
                          /\ e.depth <= 1
                          /\ e.depth = 1 => e.kind = "step"

\* C21 witness: a callback asks for a reset on the first sample of the
\* detector's window, and the next sample of the window goes to the detector
\* inside the nested execute
ExecuteRereadsWitness ==
    /\ last.op = "execute"
    /\ \E i, r, j \in DOMAIN last.ev :
          /\ i < r /\ r < j
          /\ IsHandoff(last.ev[i])
          /\ IsReset(last.ev[r])
          /\ last.ev[j].kind = "detect"
          /\ last.ev[j].depth = last.ev[i].depth + 1
          /\ last.ev[j].x = last.ev[i].v[Len(last.ev[i].v)]

\* C22 as stated: once a decimated sample has been written to the buffer since
\* the last reset, and so since the last handoff, no later decimated sample is
\* discarded by the delay gate, also with a symbol counter that wraps.
DelayGateOncePerHandoff ==
    \A i \in DOMAIN last.ev :
        (IsAppend(last.ev[i]) /\ last.ev[i].held > 0) => last.ev[i].wrote

====
